---- MODULE Spec2Model ----
(***************************************************************************)
(* Tool-execution orchestration of react-ai-agent-chat-sdk:                *)
(* executeWithTimeout (timeout guard), executeWithRetry (retry loop with   *)
(* exponential backoff) and wrapToolWithTimeoutRetry (error sentinel).     *)
(* One wrapped tool call is followed on the JavaScript event loop: timers  *)
(* are macrotasks that fire at their due time on a discrete clock, promise *)
(* continuations are microtasks and run inside the step that settles the   *)
(* promise.                                                                *)
(* Further components, each with its own specification over the same       *)
(* variables: makeAgentChatRouteConfig, the route handlers chatRoute and   *)
(* chatHistoryRoute with streamMessage, MemoryStorage,                     *)
(* makeAgentChatClientConfig and the AgentChatProvider component.          *)
(***************************************************************************)
EXTENDS Integers, Sequences, FiniteSets, TLC

VARIABLES
  \* the call of a wrapped tool that the event loop is running a callback of
  tool, wrappedTool, config, pc, attempt, lastError, timers, guard, ops, delays,
  result, wrapped,
  \* the clock of the event loop
  now,
  \* a second call in flight (its closure), and which of the two is running
  focus, other,
  \* the arguments of makeAgentChatRouteConfig and the route config it returns
  routeInput, routeConfig,
  \* one chat request in streamMessage: the route config's storage, auth and
  \* model settings, the request, the position of the handler, the calls of
  \* storage.saveMessage, the texts of the finished steps, the response
  chatConfig, chatRequest, chatPc, saveCalls, stepTexts, response,
  \* the HTTP request a route handler was given (none when streamMessage is
  \* called directly), and the calls of auth_func, of the model and of
  \* storage.getConversation made for it
  httpRequest, effects,
  \* a MemoryStorage: its conversations object (own properties), the
  \* operations called on it so far, what the last one returned or threw
  conversations, storageLog, storageReturn,
  \* the client: the arguments and the result of makeAgentChatClientConfig,
  \* then an AgentChatProvider: where it is in its life, its conversationId
  \* prop, its React state, the history fetches in flight with the cancelled
  \* flag of their effect run, the memoized transport, the state of useChat,
  \* and the chat requests sent
  clientInput, clientConfig, clientPc, propConversationId, initialMessages,
  isLoadingHistory, chatKey, fetches, transport, chat, input, isThinking,
  isProcessingTools, currentTool, sent

\* the variables of a call of a wrapped tool
callVars == <<tool, wrappedTool, config, pc, attempt, lastError, timers, guard, ops,
              delays, result, wrapped, now, focus, other>>

\* the variables of the construction of the route config
routeVars == <<routeInput, routeConfig>>

\* the variables of a chat request
chatVars == <<chatConfig, chatRequest, chatPc, saveCalls, stepTexts, response,
              httpRequest, effects>>

\* the variables of a MemoryStorage
storageVars == <<conversations, storageLog, storageReturn>>

\* the variables of the client
clientVars == <<clientInput, clientConfig, clientPc, propConversationId, initialMessages,
                isLoadingHistory, chatKey, fetches, transport, chat, input,
                isThinking, isProcessingTools, currentTool, sent>>

vars == <<callVars, routeVars, chatVars, storageVars, clientVars>>

\* what no callback of the running call assigns: the tool and its wrapper, the
\* merged config, the closure of the other call, and the other components
fixed == <<tool, wrappedTool, config, focus, other, routeVars, chatVars, storageVars,
           clientVars>>

(* ---------------------------- bounds ---------------------------------- *)

MaxRetries == 2
MaxTimeout == 2
MaxDelay == 1

\* longest possible call: every attempt runs to its deadline, every backoff is waited
MaxTime == (MaxRetries + 1) * MaxTimeout + MaxDelay * (2 ^ MaxRetries) + 1

Attempts == 0 .. MaxRetries

ToolName == "slow_tool"

(* ---------------------------- values ---------------------------------- *)

\* the JavaScript value false
FalseValue == [primitive |-> "false"]

\* success values a tool operation may produce: an object, a falsy primitive
Values == {[ok |-> TRUE], FalseValue}

NoValue == [none |-> TRUE]

\* new Error(message)
PlainError(message) ==
  [isError |-> TRUE, cls |-> "Error", message |-> message, cause |-> <<>>]

\* a thrown value that is not an Error (throw "boom"); message holds String(value)
NonErrorValue(str) ==
  [isError |-> FALSE, cls |-> "String", message |-> str, cause |-> <<>>]

ToolTimeoutError(toolName, timeout) ==
  [isError |-> TRUE, cls |-> "ToolTimeoutError",
   message |-> <<"Tool \"", toolName, "\" timed out after ", ToString(timeout), "ms">>,
   cause |-> <<>>]

ToolRetryExhaustedError(toolName, retries, last) ==
  [isError |-> TRUE, cls |-> "ToolRetryExhaustedError",
   message |-> <<"Tool \"", toolName, "\" failed after ", ToString(retries),
                 " retries. Last error: ">> \o last.message,
   cause |-> <<last>>]

\* reading .message of undefined inside the ToolRetryExhaustedError constructor
TypeErrorUndefined ==
  [isError |-> TRUE, cls |-> "TypeError",
   message |-> <<"Cannot read properties of undefined (reading 'message')">>,
   cause |-> <<>>]

\* failures the tool operation itself may produce
OpFailures ==
  { PlainError(<<"boom">>),
    NonErrorValue(<<"boom">>),
    ToolTimeoutError("inner_tool", 1) }

\* error instanceof ToolTimeoutError
IsToolTimeoutError(e) == e.isError /\ e.cls = "ToolTimeoutError"

\* the JavaScript values undefined and null
Undefined == [undefined |-> TRUE]
Null == [null |-> TRUE]

(* ---------------------------- promises -------------------------------- *)

PendingPromise == [state |-> "pending", value |-> NoValue]

\* resolve(v) that overwrites an earlier settlement
PromiseResolve_lastWins(p, v) == [state |-> "fulfilled", value |-> v]

\* resolve(v) of a promise: the first settlement wins
PromiseResolve(p, v) ==
  IF p.state = "pending" THEN [state |-> "fulfilled", value |-> v] ELSE p

\* reject(e) of a promise: the first settlement wins
PromiseReject(p, e) ==
  IF p.state = "pending" THEN [state |-> "rejected", value |-> e] ELSE p

(* ---------------------------- wrapper --------------------------------- *)

\* the catch block of the wrapped execute
Sentinel(error) ==
  LET errorMessage == error.message
      errorType == IF error.isError THEN error.cls ELSE "Error"
  IN [__toolError |-> TRUE,
      __errorType |-> errorType,
      __errorMessage |-> errorMessage,
      error |-> errorMessage,
      success |-> FALSE]

\* the exponent taken from the attempt index instead of the retry number
BackoffDelay_fromAttempt(cfg, n) == cfg.retryDelayMs * (2 ^ n)

\* config.retryDelayMs * Math.pow(2, attempt - 1)
BackoffDelay(cfg, n) == cfg.retryDelayMs * (2 ^ (n - 1))

(* ---------------------------- state ----------------------------------- *)

Configs ==
  [timeoutMs : 1 .. MaxTimeout, retries : -1 .. MaxRetries, retryDelayMs : 0 .. MaxDelay]

ConfigFields == {"timeoutMs", "retries", "retryDelayMs"}

\* Partial<ToolExecutionConfig>: any subset of the fields
PartialConfigs ==
  UNION {[S -> -1 .. MaxRetries] : S \in SUBSET ConfigFields}

\* an object without own properties; spreading undefined adds none either
EmptyObject == [f \in {} |-> 0]

\* { ...base, ...override } with the operands the wrong way round
SpreadMerge_baseWins(base, override) ==
  [f \in DOMAIN base \cup DOMAIN override |->
     IF f \in DOMAIN base THEN base[f] ELSE override[f]]

\* { ...base, ...override }: every own property of override replaces base's
SpreadMerge(base, override) ==
  [f \in DOMAIN base \cup DOMAIN override |->
     IF f \in DOMAIN override THEN override[f] ELSE base[f]]

\* the tools an integrator may register: executionConfig is optional
Tools ==
  LET base == [description |-> "A slow operation", display_name |-> "Slow tool",
               inputSchema |-> "z.object", execute |-> "tool.execute"]
  IN {base} \cup
     {SpreadMerge(base, [executionConfig |-> p]) : p \in PartialConfigs}

\* tool.executionConfig, undefined when the tool has none
ExecutionConfigOf(t) ==
  IF "executionConfig" \in DOMAIN t THEN t.executionConfig ELSE EmptyObject

\* line 158: per-tool config merged over the global one
FinalExecutionConfig(globalExecutionConfig, t) ==
  SpreadMerge(globalExecutionConfig, ExecutionConfigOf(t))

\* the wrapper storing the merged config back into the tool
WrapTool_storesConfig(t, globalExecutionConfig) ==
  SpreadMerge(t, [execute |-> "wrapped execute",
                  executionConfig |-> FinalExecutionConfig(globalExecutionConfig, t)])

\* lines 160-185: { ...tool, execute: async (input) => ... }
WrapTool(t, globalExecutionConfig) ==
  SpreadMerge(t, [execute |-> "wrapped execute"])

\* a call that was never made
NoCall ==
  [tool |-> EmptyObject, wrappedTool |-> EmptyObject, config |-> EmptyObject,
   pc |-> "absent", attempt |-> 0, lastError |-> <<>>, timers |-> {},
   guard |-> <<>>, ops |-> <<>>, delays |-> <<>>,
   result |-> [state |-> "pending", value |-> [none |-> TRUE]],
   wrapped |-> [state |-> "pending", value |-> [none |-> TRUE]]]

\* nothing was constructed
Nothing == [none |-> TRUE]

\* no route config is under construction
NoRoute ==
  /\ routeInput = Nothing
  /\ routeConfig = Nothing

\* no chat request is being handled
NoChat ==
  /\ chatConfig = Nothing
  /\ chatRequest = Nothing
  /\ chatPc = "absent"
  /\ saveCalls = <<>>
  /\ stepTexts = <<>>
  /\ response = Nothing
  /\ httpRequest = Nothing
  /\ effects = <<>>

\* no MemoryStorage is in use
NoStorage ==
  /\ conversations = Nothing
  /\ storageLog = <<>>
  /\ storageReturn = Nothing

\* no client exists
NoClient ==
  /\ clientInput = Nothing
  /\ clientConfig = Nothing
  /\ clientPc = "absent"
  /\ propConversationId = ""
  /\ initialMessages = <<>>
  /\ isLoadingHistory = TRUE
  /\ chatKey = 0
  /\ fetches = {}
  /\ transport = Nothing
  /\ chat = Nothing
  /\ input = <<>>
  /\ isThinking = FALSE
  /\ isProcessingTools = FALSE
  /\ currentTool = Null
  /\ sent = <<>>

Init ==
  /\ NoRoute
  /\ NoChat
  /\ NoStorage
  /\ NoClient
  /\ \E globalExecutionConfig \in Configs :
       /\ tool \in Tools
       /\ config = FinalExecutionConfig(globalExecutionConfig, tool)
       /\ config \in Configs
       /\ wrappedTool = WrapTool(tool, globalExecutionConfig)
  /\ focus = 1
  /\ other = NoCall
  /\ pc = "idle"
  /\ attempt = 0
  /\ lastError = <<>>
  /\ timers = {}
  /\ guard = [i \in Attempts |-> PendingPromise]
  /\ ops = [i \in Attempts |-> "none"]
  /\ delays = <<>>
  /\ result = PendingPromise
  /\ wrapped = PendingPromise
  /\ now = 0

\* the guard's timer armed one unit too long
DeadlineTimer_late(i) ==
  [kind |-> "deadline", attempt |-> i, set |-> now, due |-> now + config.timeoutMs + 1]

\* setTimeout(..., timeout) of attempt i's guard, armed at time `now`
DeadlineTimer(i) ==
  [kind |-> "deadline", attempt |-> i, set |-> now, due |-> now + config.timeoutMs]

\* setTimeout(resolve, delay) before attempt n, armed at time `now`
BackoffTimer(n) ==
  [kind |-> "backoff", attempt |-> n, set |-> now, due |-> now + BackoffDelay(config, n)]

\* the wrapped execute without its catch block: the failure propagates
ThrowFinal_rethrow(finalError) ==
  /\ result' = PromiseReject(result, finalError)
  /\ wrapped' = PromiseReject(wrapped, finalError)
  /\ pc' = "done"

\* lines 72-76 and the wrapper around them: executeWithRetry throws the final
\* error, the wrapped execute catches it and returns the sentinel
ThrowFinal(finalError) ==
  /\ result' = PromiseReject(result, finalError)
  /\ wrapped' = PromiseResolve(wrapped, Sentinel(finalError))
  /\ pc' = "done"

\* the catch block with a break on the last attempt only: timeouts are retried
HandleFailure_retryOnTimeout(i, error, tm) ==
  LET last == IF error.isError THEN error ELSE PlainError(error.message)
  IN /\ lastError' = <<last>>
     /\ IF i = config.retries
          THEN /\ ThrowFinal(ToolRetryExhaustedError(ToolName, config.retries, last))
               /\ timers' = tm
               /\ UNCHANGED <<attempt, delays>>
          ELSE /\ attempt' = i + 1
               /\ delays' = Append(delays, BackoffDelay(config, i + 1))
               /\ timers' = tm \cup {BackoffTimer(i + 1)}
               /\ pc' = "backoff"
               /\ UNCHANGED <<result, wrapped>>

\* the catch block with the loop bound off by one: the last retry is never made
HandleFailure_oneShort(i, error, tm) ==
  LET last == IF error.isError THEN error ELSE PlainError(error.message)
  IN /\ lastError' = <<last>>
     /\ IF IsToolTimeoutError(error) \/ i >= config.retries - 1
          THEN /\ ThrowFinal(ToolRetryExhaustedError(ToolName, config.retries, last))
               /\ timers' = tm
               /\ UNCHANGED <<attempt, delays>>
          ELSE /\ attempt' = i + 1
               /\ delays' = Append(delays, BackoffDelay(config, i + 1))
               /\ timers' = tm \cup {BackoffTimer(i + 1)}
               /\ pc' = "backoff"
               /\ UNCHANGED <<result, wrapped>>

\* the catch block rethrowing the last error itself after the loop
HandleFailure_noWrap(i, error, tm) ==
  LET last == IF error.isError THEN error ELSE PlainError(error.message)
  IN /\ lastError' = <<last>>
     /\ IF IsToolTimeoutError(error) \/ i = config.retries
          THEN /\ ThrowFinal(last)
               /\ timers' = tm
               /\ UNCHANGED <<attempt, delays>>
          ELSE /\ attempt' = i + 1
               /\ delays' = Append(delays, BackoffDelay(config, i + 1))
               /\ timers' = tm \cup {BackoffTimer(i + 1)}
               /\ pc' = "backoff"
               /\ UNCHANGED <<result, wrapped>>

\* the catch block of the retry loop for the failure `error` of attempt i,
\* followed by the next iteration up to its backoff timer; tm is the timer
\* set left by the step that produced the failure
HandleFailure(i, error, tm) ==
  LET last == IF error.isError THEN error ELSE PlainError(error.message)
  IN /\ lastError' = <<last>>
     /\ IF IsToolTimeoutError(error) \/ i = config.retries
          THEN /\ ThrowFinal(ToolRetryExhaustedError(ToolName, config.retries, last))
               /\ timers' = tm
               /\ UNCHANGED <<attempt, delays>>
          ELSE /\ attempt' = i + 1
               /\ delays' = Append(delays, BackoffDelay(config, i + 1))
               /\ timers' = tm \cup {BackoffTimer(i + 1)}
               /\ pc' = "backoff"
               /\ UNCHANGED <<result, wrapped>>

\* executeWithTimeout for attempt i: arm the deadline timer, invoke fn()
InvokeAttempt(i, tm) ==
  \/ \* fn() returns a pending promise
     /\ ops' = [ops EXCEPT ![i] = "pending"]
     /\ timers' = tm \cup {DeadlineTimer(i)}
     /\ pc' = "guard"
     /\ attempt' = i
     /\ UNCHANGED <<lastError, guard, delays, result, wrapped>>
  \/ \* fn() throws synchronously inside the promise executor
     \E e \in OpFailures :
       /\ ops' = [ops EXCEPT ![i] = "threw"]
       /\ guard' = [guard EXCEPT ![i] = PromiseReject(@, e)]
       /\ HandleFailure(i, e, tm \cup {DeadlineTimer(i)})

\* typeof v === 'number': the values of the model are integers or undefined
IsNumber(v) == ToString(v) # ToString(Undefined)

\* line 51 at attempt 0: `0 <= config.retries`; a comparison with undefined
\* is false
LoopEntered(retries) == IsNumber(retries) /\ 0 <= retries

\* a ToolRetryExhaustedError constructor that copes with a missing lastError
Execute_exhaustedWithoutAttempt ==
  /\ pc = "idle"
  /\ IF LoopEntered(config.retries)
       THEN InvokeAttempt(0, timers)
       ELSE /\ ThrowFinal(ToolRetryExhaustedError(ToolName, 0, PlainError(<<"undefined">>)))
            /\ UNCHANGED <<attempt, lastError, timers, guard, ops, delays>>
  /\ UNCHANGED <<fixed, now>>

\* the wrapped execute is called: executeWithRetry enters its loop
Execute ==
  /\ pc = "idle"
  /\ IF LoopEntered(config.retries)
       THEN InvokeAttempt(0, timers)
       ELSE /\ ThrowFinal(TypeErrorUndefined)
            /\ UNCHANGED <<attempt, lastError, timers, guard, ops, delays>>
  /\ UNCHANGED <<fixed, now>>

\* the next attempt started without awaiting the backoff delay
BackoffFires_noWait ==
  \E t \in timers :
    /\ t.kind = "backoff"
    /\ InvokeAttempt(attempt, timers \ {t})
    /\ UNCHANGED <<fixed, now>>

\* the backoff delay before attempt n has elapsed
BackoffFires ==
  \E t \in timers :
    /\ t.kind = "backoff"
    /\ t.due <= now
    /\ InvokeAttempt(attempt, timers \ {t})
    /\ UNCHANGED <<fixed, now>>

\* the continuation with the awaited value dropped (await without return)
GuardSettled_dropValue(i, g, tm) ==
  IF g.state = "fulfilled"
    THEN /\ result' = PromiseResolve(result, NoValue)
         /\ wrapped' = PromiseResolve(wrapped, NoValue)
         /\ pc' = "done"
         /\ timers' = tm
         /\ UNCHANGED <<attempt, lastError, delays>>
    ELSE HandleFailure(attempt, g.value, tm)

\* the continuation of `await executeWithTimeout(...)` for attempt i once
\* its guard went from pending to settled
GuardSettled(i, g, tm) ==
  IF g.state = "fulfilled"
    THEN /\ result' = PromiseResolve(result, g.value)
         /\ wrapped' = PromiseResolve(wrapped, g.value)
         /\ pc' = "done"
         /\ timers' = tm
         /\ UNCHANGED <<attempt, lastError, delays>>
    ELSE HandleFailure(attempt, g.value, tm)

DeadlineOf(i) == {t \in timers : t.kind = "deadline" /\ t.attempt = i}

\* the operation of attempt i resolves: clearTimeout(timer); resolve(result)
OpResolves(i) ==
  \E v \in Values :
    LET g == PromiseResolve(guard[i], v)
        tm == timers \ DeadlineOf(i)
    IN /\ ops[i] = "pending"
       /\ ops' = [ops EXCEPT ![i] = "fulfilled"]
       /\ guard' = [guard EXCEPT ![i] = g]
       /\ IF guard[i].state = "pending"
            THEN GuardSettled(i, g, tm)
            ELSE /\ timers' = tm
                 /\ UNCHANGED <<pc, attempt, lastError, delays, result, wrapped>>
       /\ UNCHANGED <<fixed, now>>

\* the operation of attempt i rejects: clearTimeout(timer); reject(error)
OpRejects(i) ==
  \E e \in OpFailures :
    LET g == PromiseReject(guard[i], e)
        tm == timers \ DeadlineOf(i)
    IN /\ ops[i] = "pending"
       /\ ops' = [ops EXCEPT ![i] = "rejected"]
       /\ guard' = [guard EXCEPT ![i] = g]
       /\ IF guard[i].state = "pending"
            THEN GuardSettled(i, g, tm)
            ELSE /\ timers' = tm
                 /\ UNCHANGED <<pc, attempt, lastError, delays, result, wrapped>>
       /\ UNCHANGED <<fixed, now>>

\* a timer callback that forgets to reject: the timer is consumed, the guard stays pending
DeadlineFires_noReject(i) ==
  \E t \in DeadlineOf(i) :
    /\ t.due <= now
    /\ timers' = timers \ {t}
    /\ UNCHANGED <<fixed, pc, attempt, lastError, guard, ops, delays, result, wrapped, now>>

\* the deadline timer of attempt i fires: reject(new ToolTimeoutError(...))
DeadlineFires(i) ==
  \E t \in DeadlineOf(i) :
    LET g == PromiseReject(guard[i], ToolTimeoutError(ToolName, config.timeoutMs))
        tm == timers \ {t}
    IN /\ t.due <= now
       /\ guard' = [guard EXCEPT ![i] = g]
       /\ IF guard[i].state = "pending"
            THEN GuardSettled(i, g, tm)
            ELSE /\ timers' = tm
                 /\ UNCHANGED <<pc, attempt, lastError, delays, result, wrapped>>
       /\ UNCHANGED <<fixed, ops, now>>

\* time passes while no timer is due; the clock starts with the call
Tick ==
  /\ pc # "idle"
  /\ now < MaxTime
  /\ \A t \in timers \cup other.timers : t.due > now
  /\ now' = now + 1
  /\ UNCHANGED <<fixed, pc, attempt, lastError, timers, guard, ops, delays,
                 result, wrapped>>

Next ==
  \/ Execute
  \/ BackoffFires
  \/ \E i \in Attempts : OpResolves(i)
  \/ \E i \in Attempts : OpRejects(i)
  \/ \E i \in Attempts : DeadlineFires(i)
  \/ Tick

Spec == Init /\ [][Next]_vars

\* the event loop runs every callback that is ready: the call is made, a due
\* timer fires, and time advances while no timer is due; nothing obliges the
\* tool operation to settle
FairSpec ==
  /\ Spec
  /\ WF_vars(Execute)
  /\ WF_vars(BackoffFires)
  /\ \A i \in Attempts : WF_vars(DeadlineFires(i))
  /\ WF_vars(Tick)

(* ---------------------- configs with undefined retries ---------------- *)

\* the tools of Tools with an executionConfig that sets retries explicitly
\* to undefined
UndefinedRetriesTools ==
  {SpreadMerge(t, [executionConfig |->
                     SpreadMerge(ExecutionConfigOf(t), [retries |-> Undefined])]) :
     t \in Tools}

LooseInit ==
  /\ NoRoute
  /\ NoChat
  /\ NoStorage
  /\ NoClient
  /\ \E globalExecutionConfig \in Configs :
       /\ tool \in Tools \/ tool \in UndefinedRetriesTools
       /\ config = FinalExecutionConfig(globalExecutionConfig, tool)
       /\ config.timeoutMs \in 1 .. MaxTimeout
       /\ config.retryDelayMs \in 0 .. MaxDelay
       /\ IsNumber(config.retries) => config.retries \in -1 .. MaxRetries
       /\ wrappedTool = WrapTool(tool, globalExecutionConfig)
  /\ focus = 1
  /\ other = NoCall
  /\ pc = "idle"
  /\ attempt = 0
  /\ lastError = <<>>
  /\ timers = {}
  /\ guard = [i \in Attempts |-> PendingPromise]
  /\ ops = [i \in Attempts |-> "none"]
  /\ delays = <<>>
  /\ result = PendingPromise
  /\ wrapped = PendingPromise
  /\ now = 0

LooseSpec == LooseInit /\ [][Next]_vars

(* ---------------------- two calls in flight --------------------------- *)

\* the activation of the running call: the tool and config its closure
\* captured and the locals of executeWithRetry / executeWithTimeout
Activation ==
  [tool |-> tool, wrappedTool |-> wrappedTool, config |-> config, pc |-> pc,
   attempt |-> attempt, lastError |-> lastError, timers |-> timers, guard |-> guard,
   ops |-> ops, delays |-> delays, result |-> result, wrapped |-> wrapped]

\* the loop counter kept in one module-level variable instead of a local
Swap_sharedAttempt ==
  /\ other.pc # "absent"
  /\ focus' = 3 - focus
  /\ other' = Activation
  /\ tool' = other.tool /\ wrappedTool' = other.wrappedTool /\ config' = other.config
  /\ pc' = other.pc /\ lastError' = other.lastError
  /\ timers' = other.timers /\ guard' = other.guard /\ ops' = other.ops
  /\ delays' = other.delays /\ result' = other.result /\ wrapped' = other.wrapped
  /\ UNCHANGED <<attempt, now, routeVars, chatVars, storageVars, clientVars>>

\* the event loop turns to a callback of the other call: that call's
\* activation becomes the running one, the running one is set aside as it is
Swap ==
  /\ other.pc # "absent"
  /\ focus' = 3 - focus
  /\ other' = Activation
  /\ tool' = other.tool /\ wrappedTool' = other.wrappedTool /\ config' = other.config
  /\ pc' = other.pc /\ attempt' = other.attempt /\ lastError' = other.lastError
  /\ timers' = other.timers /\ guard' = other.guard /\ ops' = other.ops
  /\ delays' = other.delays /\ result' = other.result /\ wrapped' = other.wrapped
  /\ UNCHANGED <<now, routeVars, chatVars, storageVars, clientVars>>

\* the configs of the two calls
PairConfigs ==
  {c \in Configs : c.retries \in {0, 1} /\ c.timeoutMs = 1 /\ c.retryDelayMs \in {0, 1}}

\* a call of a tool registered without executionConfig that has not started
IdleCall(cfg) ==
  LET t == CHOOSE t \in Tools : "executionConfig" \notin DOMAIN t
  IN [tool |-> t, wrappedTool |-> WrapTool(t, cfg), config |-> FinalExecutionConfig(cfg, t),
      pc |-> "idle", attempt |-> 0, lastError |-> <<>>, timers |-> {},
      guard |-> [i \in Attempts |-> PendingPromise],
      ops |-> [i \in Attempts |-> "none"], delays |-> <<>>,
      result |-> PendingPromise, wrapped |-> PendingPromise]

\* two calls of wrapped tools are about to be made, of one tool (equal
\* configs) or of two
PairInit ==
  /\ NoRoute
  /\ NoChat
  /\ NoStorage
  /\ NoClient
  /\ \E c1 \in PairConfigs, c2 \in PairConfigs :
       /\ tool = IdleCall(c1).tool
       /\ wrappedTool = IdleCall(c1).wrappedTool
       /\ config = IdleCall(c1).config
       /\ other = IdleCall(c2)
  /\ focus = 1
  /\ pc = "idle"
  /\ attempt = 0
  /\ lastError = <<>>
  /\ timers = {}
  /\ guard = [i \in Attempts |-> PendingPromise]
  /\ ops = [i \in Attempts |-> "none"]
  /\ delays = <<>>
  /\ result = PendingPromise
  /\ wrapped = PendingPromise
  /\ now = 0

PairNext ==
  \/ Execute
  \/ BackoffFires
  \/ \E i \in Attempts : OpResolves(i)
  \/ \E i \in Attempts : OpRejects(i)
  \/ \E i \in Attempts : DeadlineFires(i)
  \/ Tick
  \/ Swap

PairSpec == PairInit /\ [][PairNext]_vars

(* ---------------------- makeAgentChatRouteConfig ---------------------- *)

\* no call of a wrapped tool is in flight
NoCalls ==
  /\ tool = NoCall.tool /\ wrappedTool = NoCall.wrappedTool /\ config = NoCall.config
  /\ pc = NoCall.pc /\ attempt = NoCall.attempt /\ lastError = NoCall.lastError
  /\ timers = NoCall.timers /\ guard = NoCall.guard /\ ops = NoCall.ops
  /\ delays = NoCall.delays /\ result = NoCall.result /\ wrapped = NoCall.wrapped
  /\ now = 0 /\ focus = 1 /\ other = NoCall

DEFAULT_TOOL_EXECUTION_CONFIG ==
  [timeoutMs |-> 30000, retries |-> 3, retryDelayMs |-> 1000]

\* the values an integrator writes into a partial config
RouteValues == {1, 5000}

RoutePartials == UNION {[S -> RouteValues] : S \in SUBSET ConfigFields}

RouteToolNames == {"read_file", "slow_tool"}

\* the tools handed to makeAgentChatRouteConfig
RouteTools ==
  LET base == [description |-> "A tool", display_name |-> "Tool",
               inputSchema |-> "z.object", execute |-> "tool.execute"]
  IN {base} \cup
     {SpreadMerge(base, [executionConfig |-> p]) : p \in RoutePartials}

\* the arguments: toolExecutionConfig is optional
RouteInputs ==
  LET withTools == [tools : [RouteToolNames -> RouteTools]]
  IN withTools \cup
     {SpreadMerge(a, [toolExecutionConfig |-> p]) : a \in withTools, p \in RoutePartials}

RouteInit ==
  /\ NoCalls
  /\ NoChat
  /\ NoStorage
  /\ NoClient
  /\ routeInput \in RouteInputs
  /\ routeConfig = Nothing

\* lines 213-243: default config, then the global one over it; every tool is
\* wrapped with the result; `handed` is the finalExecutionConfig each wrapped
\* execute passes to executeWithRetry
MakeAgentChatRouteConfig ==
  /\ routeConfig = Nothing
  /\ LET toolExecutionConfig ==
           IF "toolExecutionConfig" \in DOMAIN routeInput
             THEN routeInput.toolExecutionConfig ELSE EmptyObject
         finalExecutionConfig ==
           SpreadMerge(DEFAULT_TOOL_EXECUTION_CONFIG, toolExecutionConfig)
     IN routeConfig' =
          [tools |-> [n \in RouteToolNames |->
                        WrapTool(routeInput.tools[n], finalExecutionConfig)],
           handed |-> [n \in RouteToolNames |->
                         FinalExecutionConfig(finalExecutionConfig, routeInput.tools[n])]]
  /\ UNCHANGED <<callVars, chatVars, storageVars, clientVars, routeInput>>

RouteNext == MakeAgentChatRouteConfig

RouteSpec == RouteInit /\ [][RouteNext]_vars

(* ---------------------- streamMessage --------------------------------- *)

MaxMessages == 2
MaxSteps == 2

\* messages of a request: role and content ("" when the message has none)
ChatMessages == [role : {"user", "assistant"}, content : {"hello", ""}]

RECURSIVE SeqsUpTo(_, _)
SeqsUpTo(S, n) ==
  IF n = 0 THEN {<<>>}
  ELSE LET shorter == SeqsUpTo(S, n - 1)
       IN shorter \cup {Append(q, x) : q \in shorter, x \in S}

\* a parsed ChatRequest: conversation_id is "" when the request has none;
\* malformed messages make convertToModelMessages throw
ChatRequests ==
  [messages : SeqsUpTo(ChatMessages, MaxMessages),
   conversation_id : {"", "conv_1"},
   malformed : BOOLEAN]

\* what the handlers read of the route config: whether a storage is
\* configured and whether its methods work (they reject otherwise), whether
\* auth_func resolves to true, resolves to false or rejects, whether
\* modelConfig has an onStepFinish of its own
ChatConfigs ==
  {c \in [storage : BOOLEAN, storageWorks : BOOLEAN, authenticated : BOOLEAN,
          authRejects : BOOLEAN, customOnStepFinish : BOOLEAN] :
     ~(c.authenticated /\ c.authRejects)}

\* the texts a model step may finish with ("" for a step without text)
StepTexts == {"", "The answer"}

ChatInit ==
  /\ NoCalls
  /\ NoRoute
  /\ NoStorage
  /\ NoClient
  /\ chatConfig \in ChatConfigs
  /\ chatRequest \in ChatRequests
  /\ chatPc = "received"
  /\ saveCalls = <<>>
  /\ stepTexts = <<>>
  /\ response = Nothing
  /\ httpRequest = Nothing
  /\ effects = <<>>

\* lastMessage.content || JSON.stringify(lastMessage)
ContentOf(message) ==
  IF message.content # "" THEN message.content ELSE "JSON of the message"

\* storage.saveMessage(conversationId, {role, content, ...}) and how it ended
SaveCall(role, content) ==
  [conversationId |-> chatRequest.conversation_id, role |-> role,
   content |-> content, saved |-> chatConfig.storageWorks]

AuthError == PlainError(<<"auth backend down">>)

\* an error leaving streamMessage or getChatHistory: the catch of the route
\* handler (lines 111-114, 175-178) answers 400; a direct caller gets the error
Thrown(error) ==
  IF httpRequest = Nothing THEN [thrown |-> error] ELSE [status |-> 400]

\* a streamMessage whose save of the user message is not inside a try
StreamMessage_saveUnguarded ==
  /\ chatPc = "received"
  /\ LET messages == chatRequest.messages
         lastMessage == messages[Len(messages)]
         saveUser == /\ chatConfig.storage
                     /\ chatRequest.conversation_id # ""
                     /\ Len(messages) > 0
                     /\ lastMessage.role = "user"
     IN IF chatConfig.authenticated /\ saveUser /\ ~chatConfig.storageWorks
          THEN /\ response' = [status |-> 500]
               /\ chatPc' = "done"
               /\ effects' = Append(effects, "auth_func")
               /\ saveCalls' = Append(saveCalls,
                                      SaveCall(lastMessage.role, ContentOf(lastMessage)))
          ELSE /\ response' = [status |-> IF chatConfig.authenticated THEN 200 ELSE 401]
               /\ chatPc' = IF chatConfig.authenticated THEN "streaming" ELSE "done"
               /\ effects' = Append(effects, "auth_func")
               /\ UNCHANGED saveCalls
  /\ UNCHANGED <<callVars, routeVars, storageVars, clientVars, chatConfig, chatRequest, stepTexts,
                 httpRequest>>

\* lines 37-104: auth, save of the user message, start of the model stream
StreamMessage ==
  /\ chatPc = "received"
  /\ LET messages == chatRequest.messages
         lastMessage == messages[Len(messages)]
         saveUser == /\ chatConfig.storage
                     /\ chatRequest.conversation_id # ""
                     /\ Len(messages) > 0
                     /\ lastMessage.role = "user"
         afterSave == IF saveUser
                        THEN Append(saveCalls,
                                    SaveCall(lastMessage.role, ContentOf(lastMessage)))
                        ELSE saveCalls
     IN IF chatConfig.authRejects
          THEN /\ response' = Thrown(AuthError)
               /\ chatPc' = "done"
               /\ effects' = Append(effects, "auth_func")
               /\ UNCHANGED saveCalls
          ELSE IF ~chatConfig.authenticated
          THEN /\ response' = [status |-> 401]
               /\ chatPc' = "done"
               /\ effects' = Append(effects, "auth_func")
               /\ UNCHANGED saveCalls
          ELSE /\ saveCalls' = afterSave
               /\ IF chatRequest.malformed
                    THEN /\ response' = [status |-> 500]
                         /\ chatPc' = "done"
                         /\ effects' = Append(effects, "auth_func")
                    ELSE /\ response' = [status |-> 200]
                         /\ chatPc' = "streaming"
                         /\ effects' = effects \o <<"auth_func", "streamText">>
  /\ UNCHANGED <<callVars, routeVars, storageVars, clientVars, chatConfig, chatRequest, stepTexts,
                 httpRequest>>

\* lines 73-97: a step of the model finishes; the saving callback is the
\* onStepFinish only when modelConfig has none of its own
StepFinish ==
  \E text \in StepTexts :
    /\ chatPc = "streaming"
    /\ Len(stepTexts) < MaxSteps
    /\ stepTexts' = Append(stepTexts, text)
    /\ saveCalls' = IF /\ ~chatConfig.customOnStepFinish
                        /\ chatConfig.storage
                        /\ chatRequest.conversation_id # ""
                        /\ text # ""
                       THEN Append(saveCalls, SaveCall("assistant", text))
                       ELSE saveCalls
    /\ UNCHANGED <<callVars, routeVars, storageVars, clientVars, chatConfig, chatRequest, chatPc,
                   response, httpRequest, effects>>

\* the stream ends (stopWhen, or the model has finished)
StreamEnds ==
  /\ chatPc = "streaming"
  /\ chatPc' = "done"
  /\ UNCHANGED <<callVars, routeVars, storageVars, clientVars, chatConfig, chatRequest,
                 saveCalls, stepTexts, response, httpRequest, effects>>

ChatNext ==
  \/ StreamMessage
  \/ StepFinish
  \/ StreamEnds

ChatSpec == ChatInit /\ [][ChatNext]_vars

(* ---------------------- chatRoute, chatHistoryRoute ------------------- *)

\* the ids a request may carry in a conversation_id position ("" for none)
RequestIds == {"", "conv_1"}

\* bodies of a POST to the chat route: text that is not JSON, JSON without a
\* messages field, JSON whose messages is not an array, and JSON that has a
\* messages array, with the conversation_id it carries at the top level, in
\* metadata and in data
NotJson == [notJson |-> TRUE]

ChatBodies ==
  {NotJson, [conversation_id |-> "conv_1"],
   [messages |-> [string |-> "hello"], conversation_id |-> "conv_1"]}
  \cup [messages : {[array |-> q] : q \in SeqsUpTo(ChatMessages, MaxMessages)},
        conversation_id : RequestIds, metadata : RequestIds, data : RequestIds,
        malformed : BOOLEAN]

\* the conversation_id query parameter of a GET to the history route, as
\* searchParams.get returns it: null when absent, else the string
HistoryQueries == {Null, [string |-> ""], [string |-> "conv_1"]}

HttpRequests ==
  [route : {"chat"}, body : ChatBodies]
  \cup [route : {"history"}, conversation_id : HistoryQueries]

\* lines 6-11: chatRequestSchema.parse succeeds
ChatSchemaAccepts(body) ==
  /\ body # NotJson
  /\ "messages" \in DOMAIN body
  /\ "array" \in DOMAIN body.messages

\* lines 17-25
NewChatRequest(body) ==
  [messages |-> body.messages.array,
   conversation_id |-> IF body.conversation_id # "" THEN body.conversation_id
                       ELSE IF body.metadata # "" THEN body.metadata
                       ELSE body.data,
   malformed |-> body.malformed]

\* lines 117-119: historyRequestSchema.parse succeeds
HistorySchemaAccepts(query) == "string" \in DOMAIN query

ApiInit ==
  /\ NoCalls
  /\ NoRoute
  /\ NoStorage
  /\ NoClient
  /\ chatConfig \in ChatConfigs
  /\ httpRequest \in HttpRequests
  /\ chatRequest = Nothing
  /\ chatPc = "arrived"
  /\ saveCalls = <<>>
  /\ stepTexts = <<>>
  /\ response = Nothing
  /\ effects = <<>>

\* a chatRoute that hands an unvalidated body on to streamMessage
chatRoute_noValidation ==
  /\ chatPc = "arrived"
  /\ httpRequest.route = "chat"
  /\ chatRequest' = [messages |-> <<>>, conversation_id |-> "", malformed |-> TRUE]
  /\ chatPc' = "received"
  /\ UNCHANGED <<callVars, routeVars, storageVars, clientVars, chatConfig, saveCalls, stepTexts,
                 response, httpRequest, effects>>

\* lines 107-115 with 27-34: the body is read and validated; streamMessage
\* runs on the ChatRequest, or the catch answers 400
chatRoute ==
  /\ chatPc = "arrived"
  /\ httpRequest.route = "chat"
  /\ IF ChatSchemaAccepts(httpRequest.body)
       THEN /\ chatRequest' = NewChatRequest(httpRequest.body)
            /\ chatPc' = "received"
            /\ UNCHANGED response
       ELSE /\ response' = [status |-> 400]
            /\ chatPc' = "done"
            /\ UNCHANGED chatRequest
  /\ UNCHANGED <<callVars, routeVars, storageVars, clientVars, chatConfig, saveCalls, stepTexts,
                 httpRequest, effects>>

\* a getChatHistory that reads the storage before it checks authentication
GetChatHistory_readsFirst(found) ==
  /\ effects' = effects \o <<"getConversation", "auth_func">>
  /\ response' = IF chatConfig.authenticated THEN [status |-> 200]
                  ELSE [status |-> 401]

\* lines 135-168: the outcome of getChatHistory once the request is valid
GetChatHistory(found) ==
  IF chatConfig.authRejects
    THEN /\ response' = Thrown(AuthError)
         /\ effects' = Append(effects, "auth_func")
  ELSE IF ~chatConfig.authenticated
    THEN /\ response' = [status |-> 401]
         /\ effects' = Append(effects, "auth_func")
  ELSE IF ~chatConfig.storage
    THEN /\ response' = [status |-> 501]
         /\ effects' = Append(effects, "auth_func")
  ELSE /\ effects' = effects \o <<"auth_func", "getConversation">>
       /\ response' = IF ~chatConfig.storageWorks THEN [status |-> 500]
                       ELSE IF found THEN [status |-> 200]
                       ELSE [status |-> 404]

\* lines 170-179 with 129-132: the query is validated, then getChatHistory
\* runs; any error is answered with 400
chatHistoryRoute ==
  /\ chatPc = "arrived"
  /\ httpRequest.route = "history"
  /\ chatPc' = "done"
  /\ IF HistorySchemaAccepts(httpRequest.conversation_id)
       THEN \E found \in BOOLEAN : GetChatHistory(found)
       ELSE /\ response' = [status |-> 400]
            /\ UNCHANGED effects
  /\ UNCHANGED <<callVars, routeVars, storageVars, clientVars, chatConfig, chatRequest, saveCalls,
                 stepTexts, httpRequest>>

ApiNext ==
  \/ chatRoute
  \/ StreamMessage
  \/ StepFinish
  \/ StreamEnds
  \/ chatHistoryRoute

ApiSpec == ApiInit /\ [][ApiNext]_vars

(* ---------------------- MemoryStorage --------------------------------- *)

MaxOps == 3

\* conversation ids: two ordinary ones and one that names a property every
\* plain object inherits from Object.prototype
ConversationIds == {"conv_1", "conv_2", "constructor"}

StoredMessages == [role : {"user"}, content : {"first", "second"}]

\* the properties the object literal {} inherits: ({}).constructor is the
\* function Object, which has no property named messages
ObjectPrototype == [constructor |-> [function |-> "Object"]]

\* this.conversations[conversationId]: an own property, else an inherited
\* one, else undefined
Lookup(obj, key) ==
  IF key \in DOMAIN obj THEN obj[key]
  ELSE IF key \in DOMAIN ObjectPrototype THEN ObjectPrototype[key]
  ELSE Undefined

\* this.conversations[conversationId] = conversation
Assign(obj, key, value) ==
  [k \in DOMAIN obj \cup {key} |-> IF k = key THEN value ELSE obj[k]]

\* delete this.conversations[conversationId]: removes an own property only
Delete(obj, key) == [k \in DOMAIN obj \ {key} |-> obj[k]]

\* a new conversation object (the timestamps and metadata are left out)
NewConversation(id) == [id |-> id, messages |-> <<>>]

StorageInit ==
  /\ NoCalls
  /\ NoRoute
  /\ NoChat
  /\ NoClient
  /\ conversations = [k \in {} |-> Undefined]
  /\ storageLog = <<>>
  /\ storageReturn = Nothing

Logged(op) ==
  /\ Len(storageLog) < MaxOps
  /\ storageLog' = Append(storageLog, op)
  /\ UNCHANGED <<callVars, routeVars, chatVars, clientVars>>

\* lines 11-33
saveMessage(conversationId, message) ==
  /\ Logged([op |-> "saveMessage", id |-> conversationId, message |-> message])
  /\ LET found == Lookup(conversations, conversationId)
         conversation == IF found = Undefined THEN NewConversation(conversationId)
                         ELSE found
     IN IF "messages" \in DOMAIN conversation
          THEN /\ conversations' =
                    Assign(conversations, conversationId,
                           [conversation EXCEPT !.messages = Append(@, message)])
               /\ storageReturn' = [returned |-> Undefined]
          ELSE \* conversation.messages is undefined: push throws
               /\ storageReturn' = [thrown |-> TypeErrorUndefined]
               /\ UNCHANGED conversations

\* lines 35-39
getConversation(conversationId) ==
  /\ Logged([op |-> "getConversation", id |-> conversationId])
  /\ LET conversation == Lookup(conversations, conversationId)
     IN storageReturn' =
          [returned |-> IF conversation = Undefined THEN Null ELSE conversation]
  /\ UNCHANGED conversations

\* lines 47-60
createConversation(conversationId) ==
  /\ Logged([op |-> "createConversation", id |-> conversationId])
  /\ conversations' = Assign(conversations, conversationId, NewConversation(conversationId))
  /\ storageReturn' = [returned |-> NewConversation(conversationId)]

\* lines 62-65
deleteConversation(conversationId) ==
  /\ Logged([op |-> "deleteConversation", id |-> conversationId])
  /\ conversations' = Delete(conversations, conversationId)
  /\ storageReturn' = [returned |-> Undefined]

StorageNext ==
  \E id \in ConversationIds :
    \/ \E message \in StoredMessages : saveMessage(id, message)
    \/ getConversation(id)
    \/ createConversation(id)
    \/ deleteConversation(id)

StorageSpec == StorageInit /\ [][StorageNext]_vars

(* ---------------------- makeAgentChatClientConfig --------------------- *)

\* routes are sequences of pieces, so that `${route}/history` can be built
ChatRoutePath == <<"/api/chat">>
WindowOrigin == "http://localhost:3000"
OtherOrigin == "http://localhost:3001"

\* the arguments of makeAgentChatClientConfig: historyRoute is absent, the
\* empty string, a path, or an absolute URL
ClientInputs ==
  {[route |-> ChatRoutePath]}
  \cup [route : {ChatRoutePath},
        historyRoute : {<<>>, <<"/api/custom-history">>,
                        <<OtherOrigin, "/api/chat/history">>}]

\* `${route}/history`
DerivedHistoryRoute(route) == route \o <<"/history">>

\* a config whose history route is always derived from the chat route
HistoryRouteOf_alwaysDerived(args) == DerivedHistoryRoute(args.route)

\* line 114: historyRoute || `${route}/history`
HistoryRouteOf(args) ==
  IF "historyRoute" \in DOMAIN args /\ args.historyRoute # <<>>
    THEN args.historyRoute
    ELSE DerivedHistoryRoute(args.route)

\* lines 111-118 (tools, toolExecution and showDebugPanel are left out)
MakeAgentChatClientConfig ==
  /\ clientPc = "configuring"
  /\ clientConfig' = [route |-> clientInput.route,
                       historyRoute |-> HistoryRouteOf(clientInput)]
  /\ clientPc' = "configured"
  /\ UNCHANGED <<callVars, routeVars, chatVars, storageVars, clientInput,
                 propConversationId, initialMessages, isLoadingHistory, chatKey,
                 fetches, transport, chat, input, isThinking, isProcessingTools,
                 currentTool, sent>>

(* ---------------------- AgentChatProvider ----------------------------- *)

MaxChatKey == 2
MaxSends == 2

\* values of the conversationId prop ("" while the page has none yet)
ConversationIdProps == {"", "conv_1", "conv_2"}

\* new URL(historyRoute, window.location.origin): an absolute URL is kept, a
\* path is resolved against the origin of the page
ResolveUrl(route) ==
  IF route # <<>> /\ route[1] \in {WindowOrigin, OtherOrigin} THEN route
  ELSE <<WindowOrigin>> \o route

\* lines 52-55: the history request of one run of the history effect
HistoryFetch(id) ==
  [url |-> ResolveUrl(IF clientConfig.historyRoute # <<>>
                        THEN clientConfig.historyRoute
                        ELSE DerivedHistoryRoute(clientConfig.route)),
   conversation_id |-> id,
   cancelled |-> FALSE]

\* lines 42-47, 186: a run of the history effect for conversationId id
RunHistoryEffect(id) ==
  IF id = ""
    THEN /\ isLoadingHistory' = FALSE
         /\ fetches' = {[f EXCEPT !.cancelled = TRUE] : f \in fetches}
    ELSE /\ fetches' = {[f EXCEPT !.cancelled = TRUE] : f \in fetches}
                         \cup {HistoryFetch(id)}
         /\ UNCHANGED isLoadingHistory

\* the stored message of a conversation, as the history route returns it
StoredMessage(id) ==
  [id |-> IF id = "conv_1" THEN "conv_1-msg-1" ELSE "conv_2-msg-1",
   role |-> "user", content |-> "hello"]

\* lines 61-146 for a message in the legacy format with text content
ToUIMessage(msg) ==
  [id |-> msg.id, role |-> msg.role,
   parts |-> <<[type |-> "text", text |-> msg.content, state |-> "done"]>>]

\* what the history route may answer: the conversation with its messages, a
\* conversation without messages, 404, another status, a network failure
HistoryResponses == {"messages", "empty", "404", "500", "failed"}

\* the parts the last message of useChat may have
PartLists ==
  {<<>>, <<[kind |-> "step-start"]>>, <<[kind |-> "text"]>>,
   <<[kind |-> "tool", name |-> "read_file"]>>,
   <<[kind |-> "tool", name |-> "read_file"], [kind |-> "tool", name |-> "slow_tool"]>>,
   <<[kind |-> "tool", name |-> "read_file"], [kind |-> "text"]>>}

\* chatHelpers.messages[length - 1]: undefined, a user message, an assistant
\* message
LastMessages ==
  {Undefined, [role |-> "user", parts |-> <<[kind |-> "text"]>>]}
  \cup [role : {"assistant"}, parts : PartLists]

ChatStatuses == {"ready", "submitted", "streaming", "error"}

\* an effect whose text branch leaves currentTool as it is
MonitorEffect_keepsTool(status, lastMessage) ==
  LET isLoading == status # "ready"
      isAssistant == lastMessage # Undefined /\ lastMessage.role = "assistant"
      parts == lastMessage.parts
      toolParts == SelectSeq(parts, LAMBDA part : part.kind = "tool")
      hasToolCalls == Len(toolParts) > 0
      hasTextParts == \E k \in DOMAIN parts : parts[k].kind = "text"
      unchanged == [isThinking |-> isThinking, isProcessingTools |-> isProcessingTools,
                    currentTool |-> currentTool]
      thinking == [isThinking |-> TRUE, isProcessingTools |-> FALSE,
                   currentTool |-> currentTool]
  IN IF isLoading /\ isAssistant
       THEN IF hasToolCalls /\ ~hasTextParts
              THEN [isThinking |-> FALSE, isProcessingTools |-> TRUE,
                    currentTool |-> [string |-> toolParts[Len(toolParts)].name]]
            ELSE IF hasTextParts THEN thinking
            ELSE unchanged
     ELSE IF isLoading THEN thinking
     ELSE [isThinking |-> FALSE, isProcessingTools |-> FALSE, currentTool |-> Null]

\* lines 245-281: the indicators after a run of the message-monitoring effect
MonitorEffect(status, lastMessage) ==
  LET isLoading == status # "ready"
      isAssistant == lastMessage # Undefined /\ lastMessage.role = "assistant"
      parts == lastMessage.parts
      toolParts == SelectSeq(parts, LAMBDA part : part.kind = "tool")
      hasToolCalls == Len(toolParts) > 0
      hasTextParts == \E k \in DOMAIN parts : parts[k].kind = "text"
      unchanged == [isThinking |-> isThinking, isProcessingTools |-> isProcessingTools,
                    currentTool |-> currentTool]
      thinking == [isThinking |-> TRUE, isProcessingTools |-> FALSE, currentTool |-> Null]
  IN IF isLoading /\ isAssistant
       THEN IF hasToolCalls /\ ~hasTextParts
              THEN [isThinking |-> FALSE, isProcessingTools |-> TRUE,
                    currentTool |-> [string |-> toolParts[Len(toolParts)].name]]
            ELSE IF hasTextParts THEN thinking
            ELSE unchanged
     ELSE IF isLoading THEN thinking
     ELSE [isThinking |-> FALSE, isProcessingTools |-> FALSE, currentTool |-> Null]

\* what the user may have typed
Inputs == {<<>>, <<" ">>, <<"h", "i">>, <<" ", "h", "i", " ">>}

\* input.trim()
RECURSIVE Trim(_)
Trim(text) ==
  IF text = <<>> THEN text
  ELSE IF Head(text) = " " THEN Trim(Tail(text))
  ELSE IF text[Len(text)] = " " THEN Trim(SubSeq(text, 1, Len(text) - 1))
  ELSE text

ProviderInit ==
  /\ NoCalls
  /\ NoRoute
  /\ NoChat
  /\ NoStorage
  /\ clientInput \in ClientInputs
  /\ clientConfig = Nothing
  /\ clientPc = "configuring"
  /\ propConversationId = ""
  /\ initialMessages = <<>>
  /\ isLoadingHistory = TRUE
  /\ chatKey = 0
  /\ fetches = {}
  /\ transport = Nothing
  /\ chat = Nothing
  /\ input = <<>>
  /\ isThinking = FALSE
  /\ isProcessingTools = FALSE
  /\ currentTool = Null
  /\ sent = <<>>

\* the indicators are set as the message-monitoring effect leaves them
Monitored(status, lastMessage) ==
  /\ isThinking' = MonitorEffect(status, lastMessage).isThinking
  /\ isProcessingTools' = MonitorEffect(status, lastMessage).isProcessingTools
  /\ currentTool' = MonitorEffect(status, lastMessage).currentTool

\* lines 36-281: first render of the provider and its effects
Mount ==
  \E id \in ConversationIdProps :
    /\ clientPc = "configured"
    /\ clientPc' = "mounted"
    /\ propConversationId' = id
    /\ RunHistoryEffect(id)
    /\ transport' = [api |-> clientConfig.route, conversationId |-> id]
    /\ chat' = [status |-> "ready", lastMessage |-> Undefined]
    /\ Monitored("ready", Undefined)
    /\ UNCHANGED <<callVars, routeVars, chatVars, storageVars, clientInput,
                   clientConfig, initialMessages, chatKey, input, sent>>

\* a transport that is created again when conversationId changes
ChangeConversationId_freshTransport ==
  \E id \in ConversationIdProps :
    /\ clientPc = "mounted"
    /\ id # propConversationId
    /\ propConversationId' = id
    /\ RunHistoryEffect(id)
    /\ transport' = [api |-> clientConfig.route, conversationId |-> id]
    /\ UNCHANGED <<callVars, routeVars, chatVars, storageVars, clientInput,
                   clientConfig, clientPc, initialMessages, chatKey, chat,
                   input, isThinking, isProcessingTools, currentTool, sent>>

\* the parent renders the provider with another conversationId: the cleanup
\* of the history effect (lines 188-190) and its next run (lines 42-186); the
\* transport (deps [config.route], line 218), chatOptions (line 226) and the
\* other state are kept
ChangeConversationId ==
  \E id \in ConversationIdProps :
    /\ clientPc = "mounted"
    /\ id # propConversationId
    /\ propConversationId' = id
    /\ RunHistoryEffect(id)
    /\ UNCHANGED <<callVars, routeVars, chatVars, storageVars, clientInput,
                   clientConfig, clientPc, initialMessages, chatKey, transport,
                   chat, input, isThinking, isProcessingTools, currentTool, sent>>

\* lines 55-183: the history request f is answered (or fails)
HistoryResponds ==
  \E f \in fetches, answer \in HistoryResponses :
    /\ clientPc = "mounted"
    /\ fetches' = fetches \ {f}
    /\ IF answer = "messages" /\ ~f.cancelled
         THEN /\ chatKey < MaxChatKey
              /\ initialMessages' = <<ToUIMessage(StoredMessage(f.conversation_id))>>
              /\ chatKey' = chatKey + 1
         ELSE UNCHANGED <<initialMessages, chatKey>>
    /\ isLoadingHistory' = IF f.cancelled THEN isLoadingHistory ELSE FALSE
    /\ UNCHANGED <<callVars, routeVars, chatVars, storageVars, clientInput,
                   clientConfig, clientPc, propConversationId, transport, chat,
                   input, isThinking, isProcessingTools, currentTool, sent>>

\* setInput, called by the input field of the children (rendered once
\* isLoadingHistory is false, lines 323-338)
SetInput ==
  \E text \in Inputs :
    /\ clientPc = "mounted"
    /\ ~isLoadingHistory
    /\ text # input
    /\ input' = text
    /\ UNCHANGED <<callVars, routeVars, chatVars, storageVars, clientInput,
                   clientConfig, clientPc, propConversationId, initialMessages,
                   isLoadingHistory, chatKey, fetches, transport, chat,
                   isThinking, isProcessingTools, currentTool, sent>>

\* the request body built by prepareSendMessagesRequest (lines 198-216) with
\* the conversationId of the transport's closure, and, for the record, the
\* prop and the history loading at the time of sending
SentRequest ==
  [conversation_id |-> transport.conversationId,
   text |-> input,
   prop |-> propConversationId,
   historyInFlight |-> \E f \in fetches : ~f.cancelled]

\* lines 283-296, with the message-monitoring effect after the status change
handleSubmit ==
  /\ clientPc = "mounted"
  /\ ~isLoadingHistory
  /\ Len(sent) < MaxSends
  /\ IF Trim(input) # <<>> /\ propConversationId # "" /\ ~isLoadingHistory
       THEN /\ sent' = Append(sent, SentRequest)
            /\ input' = <<>>
            /\ chat' = [status |-> "submitted",
                         lastMessage |-> [role |-> "user", parts |-> <<[kind |-> "text"]>>]]
            /\ Monitored("submitted", [role |-> "user", parts |-> <<[kind |-> "text"]>>])
       ELSE UNCHANGED <<sent, input, chat, isThinking, isProcessingTools, currentTool>>
  /\ UNCHANGED <<callVars, routeVars, chatVars, storageVars, clientInput,
                 clientConfig, clientPc, propConversationId, initialMessages,
                 isLoadingHistory, chatKey, fetches, transport>>

\* useChat reports other messages or another status (a stream event, an
\* error, the end of the answer); the message-monitoring effect runs
ChatChanges ==
  \E status \in ChatStatuses, lastMessage \in LastMessages :
    /\ clientPc = "mounted"
    /\ chat # [status |-> status, lastMessage |-> lastMessage]
    /\ chat' = [status |-> status, lastMessage |-> lastMessage]
    /\ Monitored(status, lastMessage)
    /\ UNCHANGED <<callVars, routeVars, chatVars, storageVars, clientInput,
                   clientConfig, clientPc, propConversationId, initialMessages,
                   isLoadingHistory, chatKey, fetches, transport, input, sent>>

\* a provider whose conversationId prop changes; the stream of useChat is
\* not followed beyond the submission
ProviderNext ==
  \/ MakeAgentChatClientConfig
  \/ Mount
  \/ ChangeConversationId
  \/ HistoryResponds
  \/ SetInput
  \/ handleSubmit

ProviderSpec == ProviderInit /\ [][ProviderNext]_vars

\* a provider with one conversationId, and every change useChat may report
IndicatorNext ==
  \/ MakeAgentChatClientConfig
  \/ Mount
  \/ HistoryResponds
  \/ SetInput
  \/ handleSubmit
  \/ ChatChanges

IndicatorSpec == ProviderInit /\ [][IndicatorNext]_vars

(* ---------------------- FunctionCallBlock ----------------------------- *)

\* the toolResult MessagePart builds from the tool part of the call: output
\* is what the wrapped execute returned, undefined until it has returned
ToolResultOfCall ==
  [toolCallId |-> "call_1", toolName |-> ToolName,
   output |-> IF wrapped.state = "fulfilled" THEN wrapped.value ELSE NoValue,
   isError |-> FALSE]

\* truthiness of a value of the model
Truthy(v) == v # NoValue /\ v # FalseValue

\* toolResult?.output?.__toolError
HasToolError(toolResult) ==
  "__toolError" \in DOMAIN toolResult.output /\ toolResult.output.__toolError

\* getStatusText of the default renderer
StatusText(toolResult) ==
  LET hasError == HasToolError(toolResult)
      isTimeout == hasError /\ toolResult.output.__errorType = "ToolTimeoutError"
      isRetryExhausted == hasError /\ toolResult.output.__errorType = "ToolRetryExhaustedError"
      isSuccess == ~hasError /\ Truthy(toolResult.output)
  IN IF isTimeout THEN "Timed out"
     ELSE IF isRetryExhausted THEN "Failed after retries"
     ELSE IF hasError THEN "Error"
     ELSE IF isSuccess THEN "Completed"
     ELSE "Running"

(* ---------------------------- properties ------------------------------ *)

\* the attempts whose operation has been invoked
Invoked == {i \in Attempts : ops[i] # "none"}

\* a JavaScript string, built here by concatenation of string pieces
IsString(m) == \A k \in DOMAIN m : m[k] \in STRING

IsSentinel(v) ==
  /\ DOMAIN v = {"__toolError", "__errorType", "__errorMessage", "error", "success"}
  /\ v.__toolError = TRUE
  /\ v.success = FALSE
  /\ v.__errorType \in STRING
  /\ IsString(v.__errorMessage)
  /\ IsString(v.error)

\* the deadline of attempt i elapsed while its guard was pending
DeadlineElapsed(i) ==
  /\ guard[i].state = "rejected"
  /\ guard[i].value = ToolTimeoutError(ToolName, config.timeoutMs)

\* attempt i ended with a failure of the operation that is not a timeout
FailedNonTimeout(i) ==
  /\ guard[i].state = "rejected"
  /\ ~IsToolTimeoutError(guard[i].value)

\* C1: with retries >= 0 the wrapped execute never rejects; it settles in the
\* step in which executeWithRetry settles, and when executeWithRetry failed
\* its value is a sentinel with __toolError = true, success = false and
\* string fields __errorType, __errorMessage and error.
NoThrowPastWrapper ==
  config.retries >= 0 =>
    /\ wrapped.state # "rejected"
    /\ (result.state # "pending" => wrapped.state = "fulfilled")
    /\ (result.state = "rejected" => IsSentinel(wrapped.value))

NoThrowPastWrapperWitness ==
  /\ config.retries >= 0
  /\ result.state = "rejected"
  /\ wrapped.state = "fulfilled"
  /\ wrapped.value.success = FALSE
  /\ \E i \in Attempts : ops[i] = "threw"

\* C2: when an attempt ended because its deadline elapsed, the failure of
\* executeWithRetry is the ToolTimeoutError itself (tool label, configured
\* timeout), not a ToolRetryExhaustedError wrapping it.
TimeoutIsTerminalFailure ==
  \A i \in Attempts :
    (DeadlineElapsed(i) /\ result.state = "rejected") =>
      result.value = ToolTimeoutError(ToolName, config.timeoutMs)

\* C3: the sentinel's __errorType is "ToolTimeoutError" when the call ended
\* because an attempt exceeded timeoutMs, and "ToolRetryExhaustedError" when
\* all retries+1 attempts failed with a non-timeout failure.
SentinelNamesFailureKind ==
  (wrapped.state = "fulfilled" /\ result.state = "rejected" /\ config.retries >= 0) =>
    /\ (\E i \in Attempts : DeadlineElapsed(i)) =>
          wrapped.value.__errorType = "ToolTimeoutError"
    /\ (\A i \in 0 .. config.retries : FailedNonTimeout(i)) =>
          wrapped.value.__errorType = "ToolRetryExhaustedError"

\* C4: once an attempt has failed by timeout the call is over: no later
\* attempt has been invoked, no backoff delay was computed or is pending for
\* it; and while the operation of attempt 0 is unsettled it is the only
\* invocation, whatever the retry budget.
EarlyExitOnTimeout ==
  /\ \A i \in Attempts :
        (guard[i].state = "rejected" /\ IsToolTimeoutError(guard[i].value)) =>
          /\ pc = "done"
          /\ result.state = "rejected"
          /\ \A j \in Attempts : j > i => ops[j] = "none"
          /\ Len(delays) = i
          /\ \A t \in timers : t.kind # "backoff"
  /\ (ops[0] = "pending" => Invoked = {0})

EarlyExitOnTimeoutWitness ==
  /\ config.retries = MaxRetries
  /\ DeadlineElapsed(0)
  /\ ops[0] = "pending"
  /\ pc = "done"
  /\ now = MaxTime

\* C5: the operation is never invoked more than retries+1 times, and when
\* executeWithRetry has failed after attempts that all failed with non-timeout
\* failures the operation was invoked exactly retries+1 times (attempts
\* 0..retries) and the failure is a ToolRetryExhaustedError.
RetryCount ==
  /\ Cardinality(Invoked) <= config.retries + 1
  /\ (/\ result.state = "rejected"
      /\ config.retries >= 0
      /\ \A i \in Invoked : FailedNonTimeout(i)) =>
        /\ Invoked = 0 .. config.retries
        /\ result.value.cls = "ToolRetryExhaustedError"

RetryCountWitness ==
  /\ config.retries = MaxRetries
  /\ result.state = "rejected"
  /\ \A i \in Attempts : FailedNonTimeout(i)
  /\ \E i \in Attempts : ops[i] = "rejected"

\* C6: when attempt k has succeeded, attempts 0..k-1 failed with non-timeout
\* failures, exactly k+1 invocations were made, executeWithRetry (and the
\* wrapped execute) resolved with attempt k's value, k backoff delays were
\* waited and no backoff timer or further attempt exists.
SuccessShortCircuit ==
  \A k \in Attempts :
    guard[k].state = "fulfilled" =>
      /\ k <= config.retries
      /\ \A j \in 0 .. k - 1 : FailedNonTimeout(j)
      /\ Invoked = 0 .. k
      /\ result = [state |-> "fulfilled", value |-> guard[k].value]
      /\ wrapped = result
      /\ pc = "done"
      /\ Len(delays) = k
      /\ \A t \in timers : t.kind # "backoff"

SuccessShortCircuitWitness ==
  /\ config.retries = 2
  /\ guard[1].state = "fulfilled"
  /\ guard[1].value = [ok |-> TRUE]
  /\ ops[0] = "rejected"
  /\ now = MaxTime

\* d, 2d, 4d, ... (n terms), by repeated doubling
RECURSIVE Doubling(_, _)
Doubling(d, n) == IF n = 0 THEN <<>> ELSE <<d>> \o Doubling(2 * d, n - 1)

\* C7: attempt 0 is invoked in the step of the call, with no wait; the delays
\* handed to the backoff timers are d, 2d, 4d, ... in order, a pending backoff
\* timer for attempt n is due d*2^(n-1) after the failure of attempt n-1, and
\* an operation that failed every attempt was waited for r times in all.
BackoffSchedule ==
  /\ (pc # "idle" /\ config.retries >= 0) => ops[0] # "none"
  /\ delays = Doubling(config.retryDelayMs, Len(delays))
  /\ \A t \in timers :
        t.kind = "backoff" =>
          /\ t.attempt >= 1
          /\ t.attempt = Len(delays)
          /\ t.due - t.set = delays[t.attempt]
          /\ now <= t.due
          /\ \A u \in timers : u.kind = "backoff" => u = t
  /\ (/\ result.state = "rejected"
      /\ config.retries >= 0
      /\ \A i \in Invoked : FailedNonTimeout(i)) =>
        Len(delays) = config.retries

BackoffScheduleWitness ==
  /\ config.retryDelayMs = 1
  /\ delays = <<1, 2>>
  /\ result.state = "rejected"
  /\ \A i \in Attempts : FailedNonTimeout(i)

\* C8: a settled guard never changes: a settlement of the operation or a
\* firing of the deadline timer that arrives after the guard settled leaves
\* the guard and everything the caller derived from it as they were; the
\* guard's outcome is the operation's own or the timeout failure.
GuardSingleOutcomeStep ==
  \A i \in Attempts :
    guard[i].state # "pending" =>
      /\ guard'[i] = guard[i]
      /\ (ops'[i] # ops[i] \/ DeadlineOf(i) # {t \in timers' : t.kind = "deadline" /\ t.attempt = i}) =>
            UNCHANGED <<pc, attempt, lastError, delays, result, wrapped>>

GuardSingleOutcome ==
  /\ [][GuardSingleOutcomeStep]_vars
  /\ [](\A i \in Attempts :
          /\ guard[i].state = "fulfilled" => ops[i] = "fulfilled"
          /\ guard[i].state = "rejected" =>
                (ops[i] \in {"rejected", "threw"} \/ DeadlineElapsed(i))
          /\ (guard[i].state = "pending" /\ ops[i] # "none") =>
                (pc = "guard" /\ attempt = i /\ result.state = "pending"))

\* the operation settled after its deadline had fired
GuardSingleOutcomeWitness ==
  \E i \in Attempts :
    /\ DeadlineElapsed(i)
    /\ ops[i] = "fulfilled"
    /\ wrapped.state = "fulfilled"

\* C9: when the operation settled before the deadline (resolved, rejected or
\* threw synchronously), no deadline timer of that attempt is pending once
\* the guard has settled, and the guard holds the operation's own outcome.
TimerCancelledOnSettle ==
  \A i \in Attempts :
    (guard[i].state # "pending" /\ ~DeadlineElapsed(i)) =>
      /\ DeadlineOf(i) = {}
      /\ ops[i] \in {"fulfilled", "rejected", "threw"}
      /\ (guard[i].state = "fulfilled") = (ops[i] = "fulfilled")

\* C10: attempt n >= 1 is invoked only in a step that finds attempt n-1's
\* guard settled and the backoff timer of attempt n due; at most one
\* invocation of the operation is unsettled at any time.
SequentialStep ==
  \A n \in Attempts :
    (ops[n] = "none" /\ ops'[n] # "none" /\ n >= 1) =>
      /\ guard[n - 1].state = "rejected"
      /\ \E t \in timers :
            /\ t.kind = "backoff" /\ t.attempt = n
            /\ t.due <= now
            /\ t \notin timers'
      /\ Len(delays) = n

SequentialAttempts ==
  /\ [][SequentialStep]_vars
  /\ [](Cardinality({i \in Attempts : ops[i] = "pending"}) <= 1)
  /\ [](\A i \in Attempts : (i >= 1 /\ ops[i] # "none") => ops[i - 1] # "none")

SequentialAttemptsWitness ==
  /\ config.retryDelayMs = 1
  /\ ops[0] = "rejected"
  /\ ops[1] = "rejected"
  /\ ops[2] = "pending"
  /\ now >= 3

\* C11: every call of the wrapped execute eventually settles, and with it
\* executeWithRetry, whatever the operation does (it may never settle),
\* given that due timers fire and time advances.
Termination ==
  (pc # "idle") ~> (result.state # "pending" /\ wrapped.state # "pending")

\* the last attempt's operation never settled and the call is over
TerminationWitness ==
  /\ config.retries = MaxRetries
  /\ Len(delays) = MaxRetries
  /\ ops[MaxRetries] = "pending"
  /\ wrapped.state = "fulfilled"
  /\ timers = {}

\* the sum of retryDelayMs * 2^i for i in 0 .. r-1
RECURSIVE SumBackoff(_, _)
SumBackoff(d, r) == IF r <= 0 THEN 0 ELSE SumBackoff(d, r - 1) + d * 2 ^ (r - 1)

\* (retries+1) * timeoutMs + sum of the backoff delays
ElapsedBound(cfg) ==
  (cfg.retries + 1) * cfg.timeoutMs + SumBackoff(cfg.retryDelayMs, cfg.retries)

\* C12: the clock starts at 0 with the call; while executeWithRetry is
\* unsettled the clock never exceeds (retries+1)*timeoutMs + the sum of the
\* backoff delays, so the call settles within that time.
ElapsedTimeBound ==
  (pc # "idle" /\ result.state = "pending") => now <= ElapsedBound(config)

\* a call that used its whole budget: every attempt but the last failed at its
\* deadline's tick, the last one timed out
ElapsedTimeBoundWitness ==
  /\ config = [timeoutMs |-> MaxTimeout, retries |-> MaxRetries, retryDelayMs |-> MaxDelay]
  /\ result.state = "rejected"
  /\ DeadlineElapsed(MaxRetries)
  /\ now = ElapsedBound(config)
  /\ timers = {}

\* the failure of attempt i as the catch block keeps it in lastError
FailureOf(i) ==
  IF guard[i].value.isError THEN guard[i].value ELSE PlainError(guard[i].value.message)

\* the last attempt whose operation was invoked
LastInvoked == CHOOSE i \in Invoked : \A j \in Invoked : j <= i

\* C14: a ToolRetryExhaustedError produced by executeWithRetry carries the
\* tool label, the number of retries actually attempted in the call (the
\* invocations after the first) and the message and cause of the failure of
\* the last attempt made.
ExhaustedCarriesAttempted ==
  (result.state = "rejected" /\ result.value.cls = "ToolRetryExhaustedError") =>
    result.value =
      ToolRetryExhaustedError(ToolName, Cardinality(Invoked) - 1, FailureOf(LastInvoked))

\* C15: with retries >= 0 every rejection of executeWithRetry is a
\* ToolRetryExhaustedError or a ToolTimeoutError, never the operation's own
\* failure; a non-timeout failure of attempt i < retries has armed the
\* backoff of attempt i+1 and is not the reason of a rejection.
OperationFailureNeverEscapes ==
  config.retries >= 0 =>
    /\ result.state = "rejected" =>
          /\ result.value.cls \in {"ToolRetryExhaustedError", "ToolTimeoutError"}
          /\ result.value \notin OpFailures
          /\ (FailedNonTimeout(LastInvoked) => LastInvoked = config.retries)
    /\ \A i \in Attempts :
          (FailedNonTimeout(i) /\ i < config.retries) =>
            /\ Len(delays) >= i + 1
            /\ \/ ops[i + 1] # "none"
               \/ \E t \in timers : t.kind = "backoff" /\ t.attempt = i + 1

OperationFailureNeverEscapesWitness ==
  /\ config.retries = 1
  /\ ops[0] = "rejected"
  /\ ops[1] = "threw"
  /\ guard[1].value = NonErrorValue(<<"boom">>)
  /\ result.state = "rejected"

\* C16: on success the wrapped execute resolves with the very value the
\* operation of the successful attempt produced, also after failed attempts;
\* the wrapped tool has the fields of the original tool, all but execute
\* with the original's values.
SuccessValueAndFieldsUnchanged ==
  /\ result.state = "fulfilled" =>
        /\ wrapped.state = "fulfilled"
        /\ wrapped.value \in Values
        /\ ops[LastInvoked] = "fulfilled"
        /\ wrapped.value = guard[LastInvoked].value
  /\ DOMAIN wrappedTool = DOMAIN tool
  /\ \A f \in DOMAIN tool \ {"execute"} : wrappedTool[f] = tool[f]

\* retries 2, two failures, then {ok: true}
SuccessValueAndFieldsUnchangedWitness ==
  /\ config.retries = 2
  /\ FailedNonTimeout(0)
  /\ FailedNonTimeout(1)
  /\ ops[2] = "fulfilled"
  /\ wrapped = [state |-> "fulfilled", value |-> [ok |-> TRUE]]
  /\ "executionConfig" \notin DOMAIN tool

\* the value of field f at the first level that has it: tool, global, default
ByPrecedence(args, n, f) ==
  IF "executionConfig" \in DOMAIN args.tools[n] /\ f \in DOMAIN args.tools[n].executionConfig
    THEN args.tools[n].executionConfig[f]
  ELSE IF "toolExecutionConfig" \in DOMAIN args /\ f \in DOMAIN args.toolExecutionConfig
    THEN args.toolExecutionConfig[f]
  ELSE IF f = "timeoutMs" THEN 30000
  ELSE IF f = "retries" THEN 3
  ELSE 1000

\* C13: the config handed to executeWithRetry for a tool has exactly the
\* three fields, each taken from the tool's executionConfig when that has
\* the field, else from toolExecutionConfig when that has it, else from the
\* default {30000, 3, 1000}.
ConfigMergePrecedence ==
  routeConfig # Nothing =>
    \A n \in RouteToolNames :
      /\ DOMAIN routeConfig.handed[n] = ConfigFields
      /\ \A f \in ConfigFields : routeConfig.handed[n][f] = ByPrecedence(routeInput, n, f)

\* the override {retries: 1} replaces the retries only; the global config
\* replaces the default delay only; the other tool overrides the timeout
ConfigMergePrecedenceWitness ==
  /\ routeConfig # Nothing
  /\ "toolExecutionConfig" \in DOMAIN routeInput
  /\ \A n \in RouteToolNames : "executionConfig" \in DOMAIN routeInput.tools[n]
  /\ routeInput.tools["slow_tool"].executionConfig = [retries |-> 1]
  /\ routeConfig.handed["slow_tool"] =
       [timeoutMs |-> 30000, retries |-> 1, retryDelayMs |-> 1]
  /\ routeInput.toolExecutionConfig = [retryDelayMs |-> 1]
  /\ routeInput.tools["read_file"].executionConfig = [timeoutMs |-> 1]
  /\ routeConfig.handed["read_file"] =
       [timeoutMs |-> 1, retries |-> 3, retryDelayMs |-> 1]

\* call c of the two: the running activation or the one set aside
Call(c) == IF focus = c THEN Activation ELSE other

\* the attempts of activation a whose operation has been invoked
InvokedIn(a) == {i \in Attempts : a.ops[i] # "none"}

\* what activation a may hold given only its own config and its own attempts
OwnOutcome(a) ==
  LET inv == InvokedIn(a)
      n == Cardinality(inv)
      k == CHOOSE i \in inv : \A j \in inv : j <= i
      failure == IF a.guard[k].value.isError THEN a.guard[k].value
                 ELSE PlainError(a.guard[k].value.message)
  IN /\ inv = 0 .. n - 1
     /\ n <= a.config.retries + 1
     /\ a.delays = Doubling(a.config.retryDelayMs, Len(a.delays))
     /\ a.pc = "idle" => (n = 0 /\ a.delays = <<>>)
     /\ a.pc = "guard" => (a.attempt = n - 1 /\ Len(a.delays) = n - 1 /\ a.guard[k].state = "pending")
     /\ a.pc = "backoff" => (a.attempt = n /\ Len(a.delays) = n /\ a.guard[k].state = "rejected")
     /\ a.pc = "done" => (Len(a.delays) = n - 1 /\ a.result.state # "pending")
     /\ a.result.state = "fulfilled" => a.result.value = a.guard[k].value
     /\ a.result.state = "rejected" =>
          /\ a.result.value = ToolRetryExhaustedError(ToolName, a.config.retries, failure)
          /\ (IsToolTimeoutError(failure) \/ k = a.config.retries)
     /\ \A t \in a.timers :
          /\ t.attempt \in inv \/ (t.kind = "backoff" /\ t.attempt = n)
          /\ t.kind = "deadline" => t.due - t.set = a.config.timeoutMs

IndependentStep ==
  \A c \in {1, 2} :
    /\ (Call(c).config)' = Call(c).config
    /\ (Call(c).wrappedTool)' = Call(c).wrappedTool
    /\ (Call(c))' # Call(c) => (Call(3 - c))' = Call(3 - c)

\* C17: with two calls in flight every step belongs to one call and leaves
\* the other call's attempt counter, timers, last error, delays and outcome
\* as they were; no step changes a merged config; under every interleaving
\* each call's attempts, delays and outcome are those its own config and its
\* own operation's behaviour determine.
ConcurrentCallsIndependent ==
  /\ [][IndependentStep]_vars
  /\ [](OwnOutcome(Call(1)) /\ OwnOutcome(Call(2)))

\* both calls were in flight together, one went through a retry and failed,
\* the other succeeded meanwhile
ConcurrentCallsIndependentWitness ==
  /\ Call(1).config.retries = 1
  /\ Call(1).result.state = "rejected"
  /\ Len(Call(1).delays) = 1
  /\ Call(2).result.state = "fulfilled"
  /\ \E t1 \in Call(1).timers, t2 \in Call(2).timers : t1.kind = "deadline" /\ t2.kind = "deadline"

\* C18: the default renderer shows "Running" exactly while no result has
\* arrived, "Completed" for every result that is not an error, "Timed out"
\* when the call failed because of a timeout, "Failed after retries"
\* when every attempt failed with a non-timeout failure, and "Error" for any
\* other sentinel.
StatusTextPerOutcome ==
  LET text == StatusText(ToolResultOfCall)
  IN /\ (wrapped.state = "pending") = (text = "Running")
     /\ result.state = "fulfilled" => text = "Completed"
     /\ result.state = "rejected" =>
          text = IF \E i \in Invoked : guard[i].state = "rejected" /\ IsToolTimeoutError(guard[i].value)
                   THEN "Timed out"
                 ELSE IF Invoked # {} /\ \A i \in Invoked : FailedNonTimeout(i)
                   THEN "Failed after retries"
                 ELSE "Error"

\* C19: for a request with a storage configured, a conversation_id and
\* authentication succeeding, storage.saveMessage has been called under that
\* conversation_id with the last message when it is a user message and with
\* the text of every finished assistant step that has text, whatever the
\* model configuration.
MessagesPersisted ==
  (/\ chatPc \in {"streaming", "done"}
   /\ chatConfig.authenticated
   /\ chatConfig.storage
   /\ chatRequest.conversation_id # "") =>
     LET messages == chatRequest.messages
         calls == {saveCalls[k] : k \in DOMAIN saveCalls}
     IN /\ (Len(messages) > 0 /\ messages[Len(messages)].role = "user") =>
             \E c \in calls :
               /\ c.conversationId = chatRequest.conversation_id
               /\ c.role = "user"
               /\ c.content = ContentOf(messages[Len(messages)])
        /\ \A k \in DOMAIN stepTexts :
             stepTexts[k] # "" =>
               \E c \in calls :
                 /\ c.conversationId = chatRequest.conversation_id
                 /\ c.role = "assistant"
                 /\ c.content = stepTexts[k]

\* what the storage contract says conversation id holds after the calls of
\* log: absent, or present with the messages saved since the last create/delete
RECURSIVE ContractState(_, _)
ContractState(log, id) ==
  IF log = <<>> THEN [present |-> FALSE]
  ELSE LET before == ContractState(SubSeq(log, 1, Len(log) - 1), id)
           last == log[Len(log)]
       IN IF last.id # id THEN before
          ELSE CASE last.op = "saveMessage" ->
                      [present |-> TRUE,
                       messages |-> IF before.present
                                      THEN Append(before.messages, last.message)
                                      ELSE <<last.message>>]
                 [] last.op = "createConversation" ->
                      [present |-> TRUE, messages |-> <<>>]
                 [] last.op = "deleteConversation" -> [present |-> FALSE]
                 [] OTHER -> before

\* C20: over any sequence of operations on a MemoryStorage, a call of
\* getConversation(id) returns null when nothing was saved or created under id
\* since the last deleteConversation(id), and otherwise a conversation whose
\* messages are the messages passed to saveMessage(id, ...) since the last
\* createConversation(id) or deleteConversation(id), in call order, whatever
\* was done to the other ids.
StorageContract ==
  (storageLog # <<>> /\ storageLog[Len(storageLog)].op = "getConversation") =>
     LET id == storageLog[Len(storageLog)].id
         expected == ContractState(storageLog, id)
     IN /\ "returned" \in DOMAIN storageReturn
        /\ IF expected.present
             THEN /\ "messages" \in DOMAIN storageReturn.returned
                  /\ storageReturn.returned.messages = expected.messages
             ELSE storageReturn.returned = Null

\* the request fails validation: a chat body that is not JSON or has no
\* messages array, a history request without conversation_id parameter
InvalidRequest ==
  \/ httpRequest.route = "chat" /\ ~ChatSchemaAccepts(httpRequest.body)
  \/ httpRequest.route = "history" /\ httpRequest.conversation_id = Null

\* C21: chatRoute and chatHistoryRoute answer an invalid request with HTTP 400
\* and call neither auth_func nor the storage nor the model for it.
InvalidRequestIs400 ==
  InvalidRequest =>
    /\ effects = <<>>
    /\ saveCalls = <<>>
    /\ stepTexts = <<>>
    /\ chatPc # "arrived" => (chatPc = "done" /\ response = [status |-> 400])

InvalidRequestIs400Witness ==
  /\ httpRequest.route = "chat"
  /\ httpRequest.body = NotJson
  /\ chatPc = "done"
  /\ response = [status |-> 400]

\* C23: when auth_func resolves to false, streamMessage and getChatHistory
\* answer 401 and have called nothing but auth_func: no saveMessage, no
\* getConversation, no model step.
UnauthenticatedNoEffect ==
  (/\ ~chatConfig.authenticated
   /\ ~chatConfig.authRejects
   /\ effects # <<>>) =>
     /\ chatPc = "done"
     /\ response = [status |-> 401]
     /\ effects = <<"auth_func">>
     /\ saveCalls = <<>>
     /\ stepTexts = <<>>

UnauthenticatedNoEffectWitness ==
  /\ ~chatConfig.authenticated
  /\ ~chatConfig.authRejects
  /\ chatConfig.storage
  /\ httpRequest.route = "history"
  /\ response = [status |-> 401]

\* C24: chatRoute answers 400 only when the body fails to parse or validate;
\* a failure after validation (auth_func rejecting, an error inside
\* streamMessage) is never answered with 400.
BadRequestOnlyForInvalidBody ==
  (httpRequest.route = "chat" /\ response = [status |-> 400]) =>
    ~ChatSchemaAccepts(httpRequest.body)

\* C25: when storage.saveMessage fails for the user message or an assistant
\* step, streamMessage still calls the model and answers with the status it
\* has when the save succeeds (200, or 500 when the messages cannot be
\* converted).
StorageFailureHarmless ==
  (\E k \in DOMAIN saveCalls : ~saveCalls[k].saved) =>
    /\ response = [status |-> IF chatRequest.malformed THEN 500 ELSE 200]
    /\ ~chatRequest.malformed => ("streamText" \in {effects[k] : k \in DOMAIN effects})

StorageFailureHarmlessWitness ==
  /\ chatPc = "done"
  /\ response = [status |-> 200]
  /\ \E j, k \in DOMAIN saveCalls :
       /\ saveCalls[j].role = "user" /\ ~saveCalls[j].saved
       /\ saveCalls[k].role = "assistant" /\ ~saveCalls[k].saved

\* a history route was given to makeAgentChatClientConfig
HistoryRouteSupplied == "historyRoute" \in DOMAIN clientInput /\ clientInput.historyRoute # <<>>

\* C22: the client config's historyRoute is the given historyRoute when one is
\* supplied and `${route}/history` when none is, and every history request of
\* the provider goes to that route.
HistoryRouteUsed ==
  clientPc \in {"configured", "mounted"} =>
    /\ HistoryRouteSupplied => clientConfig.historyRoute = clientInput.historyRoute
    /\ "historyRoute" \notin DOMAIN clientInput =>
         clientConfig.historyRoute = clientInput.route \o <<"/history">>
    /\ \A f \in fetches :
         f.url = ResolveUrl(clientConfig.historyRoute)

HistoryRouteUsedWitness ==
  /\ HistoryRouteSupplied
  /\ \E f \in fetches :
       /\ ~f.cancelled
       /\ f.url = <<WindowOrigin, "/api/custom-history">>
       /\ f.conversation_id = "conv_2"

\* C27: after every run of the message-monitoring effect isThinking and
\* isProcessingTools are not both true, currentTool is non-null only while
\* isProcessingTools is true, and with status 'ready' all three are cleared.
IndicatorsConsistent ==
  clientPc = "mounted" =>
    /\ ~(isThinking /\ isProcessingTools)
    /\ currentTool # Null => isProcessingTools
    /\ chat.status = "ready" =>
         (~isThinking /\ ~isProcessingTools /\ currentTool = Null)

IndicatorsConsistentWitness ==
  /\ clientPc = "mounted"
  /\ chat.status = "streaming"
  /\ chat.lastMessage # Undefined
  /\ chat.lastMessage.parts = <<[kind |-> "step-start"]>>
  /\ isProcessingTools
  /\ currentTool = [string |-> "slow_tool"]

\* a step in which a chat request is sent
SendStep ==
  sent' # sent =>
    /\ Trim(input) # <<>>
    /\ propConversationId # ""
    /\ ~isLoadingHistory
    /\ ~\E f \in fetches : ~f.cancelled
    /\ input' = <<>>

\* C28: a message is sent only when the trimmed input is non-empty,
\* conversationId is non-empty and the loading of the history has finished,
\* and the send clears the input; no other step sends.
SubmitOnlyWhenReady == [][SendStep]_vars

\* the conversation a restored message was stored under
OwnerOf(message) == IF message.id = "conv_1-msg-1" THEN "conv_1" ELSE "conv_2"

\* C29: once the history requests of the current conversationId are answered,
\* restoredMessages holds only messages of the current conversationId,
\* whatever the order of the old and new responses and also when the new
\* conversation has no stored history.
RestoredMessagesOfCurrentId ==
  (/\ clientPc = "mounted"
   /\ propConversationId # ""
   /\ ~\E f \in fetches : ~f.cancelled) =>
     \A k \in DOMAIN initialMessages :
       OwnerOf(initialMessages[k]) = propConversationId

\* C30: every chat request sent carries the conversationId prop the provider
\* had when it was sent.
SentUnderCurrentId ==
  \A k \in DOMAIN sent : sent[k].conversation_id = sent[k].prop

\* C26: when the merged retries is negative or undefined, the operation is
\* never invoked and the wrapped execute resolves to a sentinel with
\* success = false whose __errorType is neither "ToolTimeoutError" nor
\* "ToolRetryExhaustedError".
NoLoopSentinel ==
  ~LoopEntered(config.retries) =>
    /\ Invoked = {}
    /\ timers = {}
    /\ wrapped.state # "rejected"
    /\ pc # "idle" =>
         /\ wrapped.state = "fulfilled"
         /\ IsSentinel(wrapped.value)
         /\ wrapped.value.__errorType \notin {"ToolTimeoutError", "ToolRetryExhaustedError"}

NoLoopSentinelWitness ==
  /\ ~IsNumber(config.retries)
  /\ "executionConfig" \in DOMAIN tool
  /\ pc = "done"
  /\ wrapped.state = "fulfilled"
  /\ wrapped.value.__errorType = "TypeError"

====
